---- MODULE Spec2Model ----
(***************************************************************************)
(* GTFS Inspector (src/GTFS_Inspector.py): the identifier sorter           *)
(* (smart_sort), the feed decoder (flatten_dict, protobuf_to_dataframe),   *)
(* the cross-reference filter (get_filtered_data) and the load handler.    *)
(*                                                                         *)
(* Four specifications share the variables; each leaves the variables of   *)
(* the other parts at their initial values:                                *)
(*   SpecSort    smart_sort applied to a set of identifiers                *)
(*   SpecDecode  protobuf_to_dataframe applied to a feed                   *)
(*   Spec        the display block calling get_filtered_data               *)
(*   SpecLoad    the "Load GTFS RT" button handler                         *)
(***************************************************************************)
EXTENDS Integers, Sequences, FiniteSets, TLC

VARIABLES
    sort_pc,        \* "input" before smart_sort ran, "sorted" after
    data,           \* smart_sort's argument: a set, as its iteration order
    sorted_ids,     \* smart_sort's result
    decode_pc,      \* "feed", "decoded", "exported"
    feed,           \* feed.entity: the parsed FeedMessage's entities
    frame,          \* protobuf_to_dataframe(feed)
    json_list,      \* [json.loads(item) for item in data['original_json']]
    heap,           \* the DataFrame objects: heap[ref] is the object ref names
    session,        \* st.session_state
    display_pc,     \* "hidden" until the display block has run, then "shown"
    filter_option,  \* the filter type chosen in the display block
    selected_value, \* the value passed to get_filtered_data
    filtered,       \* get_filtered_data's result (two refs) and whether it raised
    load            \* the last run of the load handler: its inputs and what it did

sortVars == <<sort_pc, data, sorted_ids>>
decodeVars == <<decode_pc, feed, frame, json_list>>

sessionVars == <<heap, session>>
displayVars == <<display_pc, filter_option, selected_value, filtered>>

vars == <<sort_pc, data, sorted_ids, decode_pc, feed, frame, json_list,
          heap, session, display_pc, filter_option, selected_value, filtered, load>>

(***************************************************************************)
(* Strings of the identifier sorter are sequences of one-character         *)
(* strings, so that str.isdigit, int() and the code-point order of         *)
(* sorted(key=str) are computed character by character.                    *)
(***************************************************************************)
Chars == {"0", "1", "2", "9", "a", "b", "c"}

\* ord(c): the code point of a character
Ord == [c \in Chars |->
          CASE c = "0" -> 48 [] c = "1" -> 49 [] c = "2" -> 50 [] c = "9" -> 57
            [] c = "a" -> 97 [] c = "b" -> 98 [] c = "c" -> 99]

Digits == {"0", "1", "2", "9"}

\* str(x).isdigit(): non-empty and every character a digit
isdigit(s) == s # <<>> /\ \A i \in 1..Len(s) : s[i] \in Digits

\* int(s) for a digit string
RECURSIVE int(_)
int(s) ==
    IF s = <<>> THEN 0
    ELSE int(SubSeq(s, 1, Len(s) - 1)) * 10 + (Ord[s[Len(s)]] - Ord["0"])

\* s < t for Python strings: by code point, a proper prefix first
RECURSIVE StrLess(_, _)
StrLess(s, t) ==
    IF t = <<>> THEN FALSE
    ELSE IF s = <<>> THEN TRUE
    ELSE IF Ord[Head(s)] # Ord[Head(t)] THEN Ord[Head(s)] < Ord[Head(t)]
    ELSE StrLess(Tail(s), Tail(t))

\* key(a) < key(b) for the two keys smart_sort sorts by
KeyLess(key, a, b) == IF key = "int" THEN int(a) < int(b) ELSE StrLess(a, b)

\* sorted() is stable: x goes before the first element whose key is greater
RECURSIVE InsertByKey(_, _, _)
InsertByKey(key, x, s) ==
    IF s = <<>> THEN <<x>>
    ELSE IF KeyLess(key, x, Head(s)) THEN <<x>> \o s
    ELSE <<Head(s)>> \o InsertByKey(key, x, Tail(s))

\* sorted(xs, key=key)
RECURSIVE sorted(_, _)
sorted(xs, key) ==
    IF xs = <<>> THEN <<>>
    ELSE InsertByKey(key, xs[Len(xs)], sorted(SubSeq(xs, 1, Len(xs) - 1), key))

\* smart_sort without its all-numeric case
smart_sort_always_str(xs) == sorted(xs, "str")

smart_sort(xs) ==
    IF \A i \in 1..Len(xs) : isdigit(xs[i])
    THEN sorted(xs, "int")
    ELSE sorted(xs, "str")

(***************************************************************************)
(* The identifiers a column can hold (dropna().unique() of an id column).  *)
(***************************************************************************)
IdUniverse ==
    { <<"2">>, <<"9">>, <<"1", "0">>, <<"a", "b", "c">>,
      <<"1", "a">>, <<"0", "1">>, <<"1">> }

MaxIds == 4

RECURSIVE DistinctSeqs(_, _)
DistinctSeqs(S, n) ==
    IF n = 0 THEN {<<>>}
    ELSE LET shorter == DistinctSeqs(S, n - 1)
         IN  shorter \cup
             { Append(s, x) : <<s, x>> \in
                 { p \in shorter \X S :
                     /\ Len(p[1]) = n - 1
                     /\ \A i \in 1..Len(p[1]) : p[1][i] # p[2] } }

\* sorted_vehicle_ids = smart_sort(available_vehicle_ids)
SortIdentifiers ==
    /\ sort_pc = "input"
    /\ sorted_ids' = smart_sort(data)
    /\ sort_pc' = "sorted"
    /\ UNCHANGED data
    /\ UNCHANGED <<decodeVars, sessionVars, displayVars, load>>

----
Elems(s) == { s[i] : i \in 1..Len(s) }

\* C1 (as amended): smart_sort returns a permutation of its input; when every
\* identifier is a digit string the result ascends by integer value, and when
\* any identifier is not, the whole result (digit strings included) ascends in
\* code-point order, so {"10","9","abc","2"} sorts to ["10","2","9","abc"].
C1_SmartSortOrder ==
    sort_pc = "sorted" =>
        /\ Len(sorted_ids) = Len(data)
        /\ Elems(sorted_ids) = Elems(data)
        /\ IF \A x \in Elems(data) : isdigit(x)
           THEN \A i, j \in 1..Len(sorted_ids) :
                    i < j => int(sorted_ids[i]) <= int(sorted_ids[j])
           ELSE \A i, j \in 1..Len(sorted_ids) :
                    i < j => StrLess(sorted_ids[i], sorted_ids[j])
        /\ Elems(data) = { <<"1", "0">>, <<"9">>, <<"a", "b", "c">>, <<"2">> }
             => sorted_ids = << <<"1", "0">>, <<"2">>, <<"9">>, <<"a", "b", "c">> >>

\* the set {"10", "9", "abc", "2"} has been sorted
C1_Witness ==
    /\ sort_pc = "sorted"
    /\ Elems(data) = { <<"1", "0">>, <<"9">>, <<"a", "b", "c">>, <<"2">> }

\* C1 as stated: digit strings first, by integer value, then the other strings
\* in code-point order.
C1_AsStated ==
    sort_pc = "sorted" =>
        \A i, j \in 1..Len(sorted_ids) :
            i < j =>
                LET a == sorted_ids[i]
                    b == sorted_ids[j]
                IN  /\ ~(isdigit(b) /\ ~isdigit(a))
                    /\ (isdigit(a) /\ isdigit(b)) => int(a) <= int(b)
                    /\ (~isdigit(a) /\ ~isdigit(b)) => StrLess(a, b)

----
(***************************************************************************)
(* Feed decoder.  A protobuf message is the sequence of its set fields, in *)
(* field-number order, each <<proto field name, value>>; a value is        *)
(* <<"s", string>>, <<"n", number>>, <<"m", message>> or <<"r", messages>> *)
(* (a repeated message field).  A Python dict is the sequence of its       *)
(* <<key, value>> items in insertion order; a value is <<"s", string>>,    *)
(* <<"n", number>>, <<"d", dict>> or <<"l", list>>.                        *)
(***************************************************************************)

\* The json_name of each field of the GTFS-realtime schema the program reads
\* (MessageToDict names a field by its lowerCamelCase json_name).
JsonName(field) ==
    CASE field = "trip_update" -> "tripUpdate"
      [] field = "trip_id" -> "tripId"
      [] field = "route_id" -> "routeId"
      [] field = "stop_time_update" -> "stopTimeUpdate"
      [] field = "stop_id" -> "stopId"
      [] OTHER -> field

RECURSIVE MessageToDict(_), MessagesToList(_)
\* entity_dict = MessageToDict(entity)
MessageToDict(msg) ==
    IF msg = <<>> THEN <<>>
    ELSE LET name == Head(msg)[1]
             v == Head(msg)[2]
             pv == CASE v[1] = "m" -> <<"d", MessageToDict(v[2])>>
                     [] v[1] = "r" -> <<"l", MessagesToList(v[2])>>
                     [] OTHER -> v
         IN  << <<JsonName(name), pv>> >> \o MessageToDict(Tail(msg))

MessagesToList(msgs) ==
    IF msgs = <<>> THEN <<>>
    ELSE << <<"d", MessageToDict(Head(msgs))>> >> \o MessagesToList(Tail(msgs))

HasKey(d, k) == \E i \in 1..Len(d) : d[i][1] = k

\* d[k] for a key of d
Get(d, k) == d[CHOOSE i \in 1..Len(d) : d[i][1] = k][2]

\* d[k] = v: an existing key keeps its position, a new key goes last
SetItem(d, k, v) ==
    IF HasKey(d, k)
    THEN [i \in 1..Len(d) |-> IF d[i][1] = k THEN <<k, v>> ELSE d[i]]
    ELSE Append(d, <<k, v>>)

\* dict(items)
RECURSIVE dict(_)
dict(items) ==
    IF items = <<>> THEN <<>>
    ELSE LET last == items[Len(items)]
         IN  SetItem(dict(SubSeq(items, 1, Len(items) - 1)), last[1], last[2])

\* new_key that forgets the parent's key
new_key_without_parent(parent_key, sep, k) == k

\* new_key = f"{parent_key}{sep}{k}" if parent_key else k
new_key(parent_key, sep, k) ==
    IF parent_key # "" THEN parent_key \o sep \o k ELSE k

RECURSIVE flatten_dict(_, _, _), flatten_items(_, _, _)
\* the items list flatten_dict builds in its loop over d.items()
flatten_items(d, parent_key, sep) ==
    IF d = <<>> THEN <<>>
    ELSE LET k == Head(d)[1]
             v == Head(d)[2]
             nk == new_key(parent_key, sep, k)
             here == IF v[1] = "d"
                     THEN flatten_dict(v[2], nk, sep)
                     ELSE << <<nk, v>> >>
         IN  here \o flatten_items(Tail(d), parent_key, sep)

flatten_dict(d, parent_key, sep) == dict(flatten_items(d, parent_key, sep))

(***************************************************************************)
(* json.dumps writes a JSON text, here the sequence of its tokens;         *)
(* json.loads parses one.                                                  *)
(***************************************************************************)
RECURSIVE json_dumps(_), dump_members(_), dump_elements(_)
json_dumps(v) ==
    CASE v[1] = "s" -> << <<"str", v[2]>> >>
      [] v[1] = "n" -> << <<"num", v[2]>> >>
      [] v[1] = "d" -> << <<"{">> >> \o dump_members(v[2]) \o << <<"}">> >>
      [] v[1] = "l" -> << <<"[">> >> \o dump_elements(v[2]) \o << <<"]">> >>

dump_members(d) ==
    IF d = <<>> THEN <<>>
    ELSE << <<"str", Head(d)[1]>>, <<":">> >> \o json_dumps(Head(d)[2])
         \o (IF Tail(d) = <<>> THEN <<>> ELSE << <<",">> >> \o dump_members(Tail(d)))

dump_elements(l) ==
    IF l = <<>> THEN <<>>
    ELSE json_dumps(Head(l))
         \o (IF Tail(l) = <<>> THEN <<>> ELSE << <<",">> >> \o dump_elements(Tail(l)))

RECURSIVE parse_value(_, _), parse_members(_, _, _), parse_elements(_, _, _)
\* the value that starts at token i, and the position after it
parse_value(t, i) ==
    CASE t[i][1] = "str" -> [val |-> <<"s", t[i][2]>>, next |-> i + 1]
      [] t[i][1] = "num" -> [val |-> <<"n", t[i][2]>>, next |-> i + 1]
      [] t[i][1] = "{" ->
            IF t[i + 1][1] = "}"
            THEN [val |-> <<"d", <<>> >>, next |-> i + 2]
            ELSE parse_members(t, i + 1, <<>>)
      [] t[i][1] = "[" ->
            IF t[i + 1][1] = "]"
            THEN [val |-> <<"l", <<>> >>, next |-> i + 2]
            ELSE parse_elements(t, i + 1, <<>>)

parse_members(t, i, acc) ==
    LET r == parse_value(t, i + 2)
        acc2 == SetItem(acc, t[i][2], r.val)
    IN  IF t[r.next][1] = ","
        THEN parse_members(t, r.next + 1, acc2)
        ELSE [val |-> <<"d", acc2>>, next |-> r.next + 1]

parse_elements(t, i, acc) ==
    LET r == parse_value(t, i)
        acc2 == Append(acc, r.val)
    IN  IF t[r.next][1] = ","
        THEN parse_elements(t, r.next + 1, acc2)
        ELSE [val |-> <<"l", acc2>>, next |-> r.next + 1]

json_loads(t) == parse_value(t, 1).val

(***************************************************************************)
(* A DataFrame: its columns, and its rows in order, each with its index    *)
(* label and one cell per column (NaN where the record has no such key).   *)
(***************************************************************************)
NaN == <<"nan">>

EmptyFrame == [columns |-> {}, rows |-> <<>>]

Keys(d) == { d[i][1] : i \in 1..Len(d) }

\* pd.DataFrame(rows)
DataFrame(records) ==
    LET cols == UNION { Keys(records[i]) : i \in 1..Len(records) }
    IN  [columns |-> cols,
         rows |-> [i \in 1..Len(records) |->
                     [index |-> i - 1,
                      cells |-> [c \in cols |->
                                   IF HasKey(records[i], c)
                                   THEN Get(records[i], c) ELSE NaN]]]]

\* entity_row with original_json derived from the flattened dict
entity_row_json_of_flattened(entity) ==
    LET flattened_entity == flatten_dict(MessageToDict(entity), "", "_")
    IN  SetItem(flattened_entity, "original_json",
                <<"s", json_dumps(<<"d", flattened_entity>>)>>)

\* one pass of protobuf_to_dataframe's loop: the row of an entity
entity_row(entity) ==
    LET entity_dict == MessageToDict(entity)
        flattened_entity == flatten_dict(entity_dict, "", "_")
    IN  SetItem(flattened_entity, "original_json",
                <<"s", json_dumps(<<"d", entity_dict>>)>>)

protobuf_to_dataframe(entities) ==
    DataFrame([i \in 1..Len(entities) |-> entity_row(entities[i])])

(***************************************************************************)
(* The entities a feed can hold: FeedEntity messages of the GTFS-realtime  *)
(* schema, with the fields the program names in its column tests.          *)
(***************************************************************************)
Opt(name, Vals) == {<<>>} \cup { << <<name, v>> >> : v \in Vals }

Msgs(S) == { <<"m", m>> : m \in S }

TripDescriptors ==
    { a \o b : a \in Opt("trip_id", {<<"s", "T1">>}),
               b \in Opt("route_id", {<<"s", "R1">>}) }

VehicleDescriptors(ids) == Opt("id", { <<"s", v>> : v \in ids })

Positions == { << <<"latitude", <<"n", 48>> >>, <<"longitude", <<"n", 2>> >> >> }

StopTimeUpdates == { <<"r", << << <<"stop_id", <<"s", "S1">> >> >> >> >> }

VehiclePositions(trips, positions, vehicles) ==
    { a \o b \o c : a \in Opt("trip", Msgs(trips)),
                    b \in Opt("position", Msgs(positions)),
                    c \in Opt("vehicle", Msgs(vehicles)) }

TripUpdates(trips, stops, vehicles) ==
    { a \o b \o c : a \in Opt("trip", Msgs(trips)),
                    b \in Opt("stop_time_update", stops),
                    c \in Opt("vehicle", Msgs(vehicles)) }

EntityId == << <<"id", <<"s", "1">> >> >>

VehicleEntities(payloads) ==
    { EntityId \o << <<"vehicle", <<"m", m>> >> >> : m \in payloads }

TripEntities(payloads) ==
    { EntityId \o << <<"trip_update", <<"m", m>> >> >> : m \in payloads }

\* the entities the decoder is run on: sub-messages may be set but empty
DecodeEntities ==
    VehicleEntities(VehiclePositions(TripDescriptors \ {<< <<"route_id", <<"s", "R1">> >> >>},
                                     Positions,
                                     VehicleDescriptors({"101"}) \ {<<>>}))
    \cup TripEntities(TripUpdates(TripDescriptors \ {<<>>, << <<"route_id", <<"s", "R1">> >> >>},
                                  StopTimeUpdates,
                                  VehicleDescriptors({"101"}) \ {<<>>}))

MaxFeedLen == 2

RECURSIVE SeqsUpTo(_, _)
SeqsUpTo(S, n) ==
    IF n = 0 THEN {<<>>}
    ELSE LET shorter == SeqsUpTo(S, n - 1)
         IN  shorter \cup
             { Append(p[1], p[2]) : p \in { q \in shorter \X S : Len(q[1]) = n - 1 } }

\* vehicle_data = protobuf_to_dataframe(vehicle_feed)
Decode ==
    /\ decode_pc = "feed"
    /\ frame' = protobuf_to_dataframe(feed)
    /\ decode_pc' = "decoded"
    /\ UNCHANGED <<feed, json_list>>
    /\ UNCHANGED <<sortVars, sessionVars, displayVars, load>>

\* json_list = [json.loads(item) for item in data['original_json']]
ExportJson ==
    /\ decode_pc = "decoded"
    /\ frame.rows # <<>>
    /\ json_list' = [i \in 1..Len(frame.rows) |->
                        json_loads(frame.rows[i].cells["original_json"][2])]
    /\ decode_pc' = "exported"
    /\ UNCHANGED <<feed, frame>>
    /\ UNCHANGED <<sortVars, sessionVars, displayVars, load>>

----
\* the paths of d that end at a value that is not a dict, each with its value
RECURSIVE LeafPaths(_)
LeafPaths(d) ==
    UNION { IF d[i][2][1] = "d"
            THEN { [path |-> <<d[i][1]>> \o l.path, val |-> l.val] : l \in LeafPaths(d[i][2][2]) }
            ELSE { [path |-> <<d[i][1]>>, val |-> d[i][2]] }
          : i \in 1..Len(d) }

\* the components of a path joined with '_'
RECURSIVE JoinPath(_)
JoinPath(p) ==
    IF Len(p) = 1 THEN p[1]
    ELSE JoinPath(SubSeq(p, 1, Len(p) - 1)) \o "_" \o p[Len(p)]

\* the cells of a row that hold a value of the entity
FlatKeys(row) == { c \in DOMAIN row.cells : c # "original_json" /\ row.cells[c] # NaN }

\* C8: for every entity of a decoded feed, two distinct leaf paths of its nested
\* structure have distinct flat keys (the components joined with '_'), and the
\* flat record holds every leaf value under its flat key and nothing else.
C8_FlattenKeepsPathsApart ==
    decode_pc # "feed" =>
        \A i \in 1..Len(feed) :
            LET leaves == LeafPaths(MessageToDict(feed[i]))
                row == frame.rows[i]
            IN  /\ \A l1, l2 \in leaves :
                        l1.path # l2.path => JoinPath(l1.path) # JoinPath(l2.path)
                /\ FlatKeys(row) = { JoinPath(l.path) : l \in leaves }
                /\ \A l \in leaves : row.cells[JoinPath(l.path)] = l.val

\* a decoded entity with leaves at depth one, two and three
C8_Witness ==
    /\ decode_pc = "decoded"
    /\ \E i \in 1..Len(feed) :
          /\ {"id", "vehicle_trip_tripId", "vehicle_vehicle_id"} \subseteq FlatKeys(frame.rows[i])
          /\ Cardinality(LeafPaths(MessageToDict(feed[i]))) >= 4

\* C9: the original_json cell of every row, parsed back, is the nested structure
\* of the row's entity as MessageToDict gave it, and original_json is one column
\* of the frame holding the JSON text.
C9_OriginalJsonRoundTrip ==
    /\ decode_pc # "feed" =>
          \A i \in 1..Len(feed) :
              /\ "original_json" \in frame.columns
              /\ frame.rows[i].cells["original_json"][1] = "s"
              /\ json_loads(frame.rows[i].cells["original_json"][2])
                    = <<"d", MessageToDict(feed[i])>>
    /\ decode_pc = "exported" =>
          /\ Len(json_list) = Len(feed)
          /\ \A i \in 1..Len(feed) : json_list[i] = <<"d", MessageToDict(feed[i])>>

\* an exported feed with a nested entity
C9_Witness ==
    /\ decode_pc = "exported"
    /\ \E i \in 1..Len(feed) :
          \E l \in LeafPaths(MessageToDict(feed[i])) : Len(l.path) = 3

----
----
(***************************************************************************)
(* Cross-reference filter.  Python values: None, and a str s as <<"s", s>>  *)
(* (the cells of the id columns hold strs or NaN).  DataFrames are objects: *)
(* a name holds a ref into the heap, a copy or a boolean-indexed selection  *)
(* is a new object.                                                         *)
(***************************************************************************)
None == <<"none">>

Str(s) == <<"s", s>>

\* if value: None and '' are false
Truthy(value) == value # None /\ value # Str("")

\* the outcome of an expression that yields a DataFrame: the heap after it, the
\* ref of the frame, and whether it raised instead
Keep(h, ref) == [heap |-> h, ref |-> ref, raised |-> FALSE]

New(h, df) == [heap |-> Append(h, df), ref |-> Len(h) + 1, raised |-> FALSE]

\* df.copy()
copy(h, ref) == New(h, h[ref])

\* df[df[col] == value]: KeyError when df has no column col
index_eq(h, ref, col, value) ==
    IF col \notin h[ref].columns
    THEN [heap |-> h, ref |-> ref, raised |-> TRUE]
    ELSE New(h, [h[ref] EXCEPT
                   !.rows = SelectSeq(@, LAMBDA r : r.cells[col] = value)])

\* df[df[col].isin(values)]
index_isin(h, ref, col, values) ==
    IF col \notin h[ref].columns
    THEN [heap |-> h, ref |-> ref, raised |-> TRUE]
    ELSE New(h, [h[ref] EXCEPT
                   !.rows = SelectSeq(@, LAMBDA r :
                               \E i \in 1..Len(values) : r.cells[col] = values[i])])

\* where_eq without the test for the column
where_eq_unguarded(h, ref, col, value) == index_eq(h, ref, col, value)

\* where_eq with the selection's missing cells filled with ''
where_eq_fillna(h, ref, col, value) ==
    IF col \in h[ref].columns
    THEN LET r == index_eq(h, ref, col, value)
         IN  [r EXCEPT !.heap[r.ref].rows =
                [i \in 1..Len(@) |->
                   [@[i] EXCEPT !.cells =
                      [c \in DOMAIN @ |-> IF @[c] = NaN THEN Str("") ELSE @[c]]]]]
    ELSE Keep(h, ref)

\* if col in df.columns: df = df[df[col] == value]
where_eq(h, ref, col, value) ==
    IF col \in h[ref].columns THEN index_eq(h, ref, col, value) ELSE Keep(h, ref)

\* df[col].dropna().unique().tolist(): the values in order of first appearance
RECURSIVE dropna_unique(_, _)
dropna_unique(rows, col) ==
    IF rows = <<>> THEN <<>>
    ELSE LET before == dropna_unique(SubSeq(rows, 1, Len(rows) - 1), col)
             x == rows[Len(rows)].cells[col]
         IN  IF x = NaN \/ \E i \in 1..Len(before) : before[i] = x
             THEN before ELSE Append(before, x)

\* the two names bound to the inputs themselves, not to copies
copy_inputs_alias(h, vehicle_data, trip_data) ==
    [heap |-> h, fv |-> vehicle_data, ft |-> trip_data, raised |-> FALSE]

\* filtered_vehicle_data = vehicle_data.copy(); filtered_trip_data = trip_data.copy()
copy_inputs(h, vehicle_data, trip_data) ==
    LET v == copy(h, vehicle_data)
        t == copy(v.heap, trip_data)
    IN  [heap |-> t.heap, fv |-> v.ref, ft |-> t.ref, raised |-> FALSE]

\* the trip side tested on the vehicle side's column
filter_vehicle_id_same_column(st, vehicle_id) ==
    LET v == where_eq(st.heap, st.fv, "vehicle_vehicle_id", vehicle_id)
        t == where_eq(v.heap, st.ft, "vehicle_vehicle_id", vehicle_id)
    IN  [heap |-> t.heap, fv |-> v.ref, ft |-> t.ref, raised |-> v.raised \/ t.raised]

\* the "Vehicle ID" branch, for a true vehicle_id
filter_vehicle_id(st, vehicle_id) ==
    LET v == where_eq(st.heap, st.fv, "vehicle_vehicle_id", vehicle_id)
        t == where_eq(v.heap, st.ft, "tripUpdate_vehicle_id", vehicle_id)
    IN  [heap |-> t.heap, fv |-> v.ref, ft |-> t.ref, raised |-> v.raised \/ t.raised]

\* the vehicle ids taken from the trip records before they are filtered
filter_trip_id_ids_of_all_trips(st, trip_id) ==
    LET t == where_eq(st.heap, st.ft, "tripUpdate_trip_tripId", trip_id)
        all == st.heap[st.ft]
        vehicle_ids == IF "tripUpdate_vehicle_id" \in all.columns
                       THEN dropna_unique(all.rows, "tripUpdate_vehicle_id")
                       ELSE <<>>
        v == IF vehicle_ids # <<>> /\ "vehicle_vehicle_id" \in t.heap[st.fv].columns
             THEN index_isin(t.heap, st.fv, "vehicle_vehicle_id", vehicle_ids)
             ELSE where_eq(t.heap, st.fv, "vehicle_trip_tripId", trip_id)
    IN  [heap |-> v.heap, fv |-> v.ref, ft |-> t.ref, raised |-> t.raised \/ v.raised]

\* the "Trip ID" branch, for a true trip_id
filter_trip_id(st, trip_id) ==
    LET t == where_eq(st.heap, st.ft, "tripUpdate_trip_tripId", trip_id)
        kept == t.heap[t.ref]
        vehicle_ids == IF "tripUpdate_vehicle_id" \in kept.columns
                       THEN dropna_unique(kept.rows, "tripUpdate_vehicle_id")
                       ELSE <<>>
        v == IF vehicle_ids # <<>> /\ "vehicle_vehicle_id" \in t.heap[st.fv].columns
             THEN index_isin(t.heap, st.fv, "vehicle_vehicle_id", vehicle_ids)
             ELSE where_eq(t.heap, st.fv, "vehicle_trip_tripId", trip_id)
    IN  [heap |-> v.heap, fv |-> v.ref, ft |-> t.ref, raised |-> t.raised \/ v.raised]

\* the "Route ID" branch, for a true route_id
filter_route_id(st, route_id) ==
    LET v == where_eq(st.heap, st.fv, "vehicle_trip_routeId", route_id)
        t == where_eq(v.heap, st.ft, "tripUpdate_trip_routeId", route_id)
    IN  [heap |-> t.heap, fv |-> v.ref, ft |-> t.ref, raised |-> v.raised \/ t.raised]

\* what follows the two copies
apply_filter(st, option, value) ==
    CASE option = "Vehicle ID" -> IF Truthy(value) THEN filter_vehicle_id(st, value) ELSE st
      [] option = "Trip ID" -> IF Truthy(value) THEN filter_trip_id(st, value) ELSE st
      [] option = "Route ID" -> IF Truthy(value) THEN filter_route_id(st, value) ELSE st
      [] OTHER -> st

\* no copies, and each selection written back into the frame it was taken from
get_filtered_data_in_place(h, vehicle_data, trip_data, option, value) ==
    LET r == apply_filter(copy_inputs_alias(h, vehicle_data, trip_data), option, value)
    IN  [r EXCEPT !.heap = [@ EXCEPT ![vehicle_data] = r.heap[r.fv],
                                     ![trip_data] = r.heap[r.ft]]]

get_filtered_data(h, vehicle_data, trip_data, option, value) ==
    apply_filter(copy_inputs(h, vehicle_data, trip_data), option, value)

(***************************************************************************)
(* The display block.                                                      *)
(***************************************************************************)
FilterOptions == {"Vehicle ID", "Trip ID", "Route ID"}

\* set(df[col].dropna().unique()) if col in df.columns, else nothing
ColumnIds(df, col) ==
    IF col \in df.columns THEN Elems(dropna_unique(df.rows, col)) ELSE {}

\* the ids offered for a filter type
AvailableIds(option, vehicle, trip) ==
    CASE option = "Vehicle ID" -> ColumnIds(vehicle, "vehicle_vehicle_id")
      [] option = "Trip ID" ->
            ColumnIds(vehicle, "vehicle_trip_tripId")
            \cup ColumnIds(trip, "tripUpdate_trip_tripId")
      [] option = "Route ID" ->
            ColumnIds(vehicle, "vehicle_trip_routeId")
            \cup ColumnIds(trip, "tripUpdate_trip_routeId")

\* the three keys line 316 tests, and the four keys lines 317-320 read
GuardKeys == {"vehicle_data", "trip_data", "fetch_time"}

ReadKeys == {"vehicle_data", "trip_data", "selected_name", "fetch_time"}

\* the session holds the keys the guard tests; reading a key it does not hold
\* is a KeyError; else, when one of the frames has rows, the user picks a
\* filter type and one entry of [""] + sorted ids; "" becomes None
DisplayBlock ==
    /\ display_pc = "hidden"
    /\ GuardKeys \subseteq session.present
    /\ IF ~(ReadKeys \subseteq session.present)
       THEN /\ display_pc' = "key_error"
            /\ UNCHANGED <<heap, filter_option, selected_value, filtered>>
       ELSE /\ \/ heap[session.vehicle_data].rows # <<>>
               \/ heap[session.trip_data].rows # <<>>
            /\ \E option \in FilterOptions :
                 \E choice \in {Str("")} \cup AvailableIds(option, heap[session.vehicle_data],
                                                           heap[session.trip_data]) :
                    LET value == IF choice = Str("") THEN None ELSE choice
                        r == get_filtered_data(heap, session.vehicle_data,
                                               session.trip_data, option, value)
                    IN  /\ filter_option' = option
                        /\ selected_value' = value
                        /\ heap' = r.heap
                        /\ filtered' = [vehicle |-> r.fv, trip |-> r.ft, raised |-> r.raised]
            /\ display_pc' = "shown"
    /\ UNCHANGED session
    /\ UNCHANGED <<sortVars, decodeVars, load>>

\* a widget interaction reruns the script from the top: the locals of the last
\* run are gone, and so are the frames only they named
Rerun ==
    /\ display_pc # "hidden"
    /\ display_pc' = "hidden"
    /\ filter_option' = "Vehicle ID"
    /\ selected_value' = None
    /\ filtered' = [vehicle |-> 0, trip |-> 0, raised |-> FALSE]
    /\ heap' = SubSeq(heap, 1, IF Len(heap) < 2 THEN Len(heap) ELSE 2)
    /\ UNCHANGED session
    /\ UNCHANGED <<sortVars, decodeVars, load>>

\* the entities of the feeds the session's frames were decoded from
\* a trip descriptor names its trip, with or without its route
FilterTripDescriptors == { t \in TripDescriptors : HasKey(t, "trip_id") }

FilterVehicleEntities ==
    VehicleEntities(VehiclePositions(FilterTripDescriptors, {},
                                     VehicleDescriptors({"101", "202"}) \ {<<>>}))

FilterTripEntities ==
    TripEntities(TripUpdates(FilterTripDescriptors, {},
                             VehicleDescriptors({"101", "202"}) \ {<<>>}))

MaxEntities == 3

\* a session after a load: vehicle_data is heap[1], trip_data is heap[2]
LoadedSession ==
    [present |-> {"title", "vehicle_data", "trip_data", "selected_name", "fetch_time"},
     vehicle_data |-> 1, trip_data |-> 2,
     selected_name |-> "net", fetch_time |-> 1, title |-> <<"net", 1>>]

----
\* the frames the display block passed in, and the frames it got back
InV == heap[session.vehicle_data]
InT == heap[session.trip_data]
OutV == heap[filtered.vehicle]
OutT == heap[filtered.trip]

\* a record has the value in the column (a record of a set without the column
\* has no value there)
Matches(r, col, value) == col \in DOMAIN r.cells /\ r.cells[col] = value

MatchesAny(r, col, values) == \E x \in values : Matches(r, col, x)

RowsWhere(df, col, value) == SelectSeq(df.rows, LAMBDA r : Matches(r, col, value))

RowsWhereAny(df, col, values) == SelectSeq(df.rows, LAMBDA r : MatchesAny(r, col, values))

\* the non-null vehicle ids of a sequence of trip records
VehicleIdsOf(rows) ==
    { rows[i].cells["tripUpdate_vehicle_id"] :
        i \in { j \in 1..Len(rows) :
                  /\ "tripUpdate_vehicle_id" \in DOMAIN rows[j].cells
                  /\ rows[j].cells["tripUpdate_vehicle_id"] # NaN } }

Applied(option) ==
    /\ display_pc = "shown"
    /\ filter_option = option
    /\ Truthy(selected_value)

\* C2 (as amended): under a Trip ID filter with a non-empty value t the trip
\* output is the trip records whose trip-id equals t when the trip records have
\* the trip-id column, and all trip records when they have not; with D the
\* non-null vehicle ids of the kept trip records, the vehicle output is the
\* vehicle records whose vehicle-id is in D when D is non-empty and the vehicle
\* records have the vehicle-id column; otherwise it is the vehicle records whose
\* own trip-id equals t when they have a trip-id column, and all of them when
\* they have not.
C2_TripIdFilter ==
    Applied("Trip ID") =>
        LET t == selected_value
            kept == IF "tripUpdate_trip_tripId" \in InT.columns
                    THEN RowsWhere(InT, "tripUpdate_trip_tripId", t)
                    ELSE InT.rows
            D == VehicleIdsOf(kept)
        IN  /\ ~filtered.raised
            /\ OutT.rows = kept
            /\ OutV.rows =
                 IF D # {} /\ "vehicle_vehicle_id" \in InV.columns
                 THEN RowsWhereAny(InV, "vehicle_vehicle_id", D)
                 ELSE IF "vehicle_trip_tripId" \in InV.columns
                      THEN RowsWhere(InV, "vehicle_trip_tripId", t)
                      ELSE InV.rows

\* a Trip ID filter that selected vehicles through D while other vehicles were
\* dropped
C2_Witness ==
    /\ Applied("Trip ID")
    /\ VehicleIdsOf(OutT.rows) # {}
    /\ OutV.rows # <<>>
    /\ Len(OutV.rows) < Len(InV.rows)

\* C2 as stated: the trip output is exactly the trip records whose trip-id is
\* t; the vehicle output is the vehicle records whose vehicle-id is in D when D
\* is non-empty, and those whose own trip-id is t when D is empty.
C2_AsStated ==
    Applied("Trip ID") =>
        LET t == selected_value
            kept == RowsWhere(InT, "tripUpdate_trip_tripId", t)
            D == VehicleIdsOf(kept)
        IN  /\ OutT.rows = kept
            /\ OutV.rows = IF D # {}
                           THEN RowsWhereAny(InV, "vehicle_vehicle_id", D)
                           ELSE RowsWhere(InV, "vehicle_trip_tripId", t)

\* C3 (as amended): under a Vehicle ID filter with a non-empty value v each
\* output is computed from its own input alone: the records whose vehicle-id
\* column equals v when the input has that column, and all the input's records
\* when it has not.
C3_VehicleIdFilter ==
    Applied("Vehicle ID") =>
        LET v == selected_value
        IN  /\ ~filtered.raised
            /\ OutV.rows = IF "vehicle_vehicle_id" \in InV.columns
                           THEN RowsWhere(InV, "vehicle_vehicle_id", v)
                           ELSE InV.rows
            /\ OutT.rows = IF "tripUpdate_vehicle_id" \in InT.columns
                           THEN RowsWhere(InT, "tripUpdate_vehicle_id", v)
                           ELSE InT.rows

\* a Vehicle ID filter that kept a trip record of a vehicle and dropped another
C3_Witness ==
    /\ Applied("Vehicle ID")
    /\ OutT.rows # <<>>
    /\ Len(OutT.rows) < Len(InT.rows)
    /\ OutV.rows # <<>>

\* C3 as stated: each output is exactly the records whose vehicle-id column
\* equals v.
C3_AsStated ==
    Applied("Vehicle ID") =>
        /\ OutV.rows = RowsWhere(InV, "vehicle_vehicle_id", selected_value)
        /\ OutT.rows = RowsWhere(InT, "tripUpdate_vehicle_id", selected_value)

\* C4: with an empty or absent value, whatever the filter type, the outputs
\* equal the inputs (columns and rows, in order) and are other objects than the
\* inputs.
C4_EmptyFilterIsIdentity ==
    (display_pc = "shown" /\ ~Truthy(selected_value)) =>
        /\ ~filtered.raised
        /\ OutV = InV
        /\ OutT = InT
        /\ filtered.vehicle \notin {session.vehicle_data, session.trip_data}
        /\ filtered.trip \notin {session.vehicle_data, session.trip_data}
        /\ filtered.vehicle # filtered.trip

\* an empty selection on a session with vehicle and trip records
C4_Witness ==
    /\ display_pc = "shown"
    /\ selected_value = None
    /\ filter_option = "Route ID"
    /\ InV.rows # <<>>
    /\ InT.rows # <<>>

\* the column a filter tests on the vehicle side: under a Trip ID filter the
\* vehicle-id column when the kept trip records name vehicles and the vehicle
\* records have it (with whenMissingToo: also when they have it not), else
\* the trip-id column
VehicleColumn(whenMissingToo) ==
    CASE filter_option = "Vehicle ID" -> "vehicle_vehicle_id"
      [] filter_option = "Route ID" -> "vehicle_trip_routeId"
      [] filter_option = "Trip ID" ->
            IF /\ VehicleIdsOf(OutT.rows) # {}
               /\ whenMissingToo \/ "vehicle_vehicle_id" \in InV.columns
            THEN "vehicle_vehicle_id" ELSE "vehicle_trip_tripId"

TripColumn ==
    CASE filter_option = "Vehicle ID" -> "tripUpdate_vehicle_id"
      [] filter_option = "Route ID" -> "tripUpdate_trip_routeId"
      [] filter_option = "Trip ID" -> "tripUpdate_trip_tripId"

\* the values a record's cell is tested against
VehicleValues(col) ==
    IF filter_option = "Trip ID" /\ col = "vehicle_vehicle_id"
    THEN VehicleIdsOf(OutT.rows) ELSE {selected_value}

NoMatch(df, col, values) == \A i \in 1..Len(df.rows) : ~MatchesAny(df.rows[i], col, values)

\* C5 (as amended): get_filtered_data raises no error; where the column a
\* non-empty filter tests is present and no record matches, the output is an
\* empty record set with the input's columns; where the record set lacks the
\* column the test is skipped and the output holds all records of the input.
\* (On the vehicle side of a Trip ID filter the column tested is the
\* vehicle-id column when the kept trip records name vehicles and the vehicle
\* records have that column, and the trip-id column otherwise.)
C5_NoErrorEmptyOrWhole ==
    display_pc = "shown" =>
        /\ ~filtered.raised
        /\ Truthy(selected_value) =>
             LET vcol == VehicleColumn(FALSE)
             IN  /\ OutV.columns = InV.columns
                 /\ OutT.columns = InT.columns
                 /\ (vcol \in InV.columns /\ NoMatch(InV, vcol, VehicleValues(vcol)))
                        => OutV.rows = <<>>
                 /\ (TripColumn \in InT.columns /\ NoMatch(InT, TripColumn, {selected_value}))
                        => OutT.rows = <<>>
                 /\ vcol \notin InV.columns => OutV.rows = InV.rows
                 /\ TripColumn \notin InT.columns => OutT.rows = InT.rows

\* a filter applied where the trip records lack the tested column and are all
\* returned, and one where they have it and none matches
C5_Witness ==
    /\ display_pc = "shown"
    /\ Truthy(selected_value)
    /\ \/ TripColumn \notin InT.columns /\ OutT.rows # <<>>
       \/ /\ VehicleColumn(FALSE) \notin InV.columns
          /\ OutV.rows # <<>>

\* a filter whose tested column is present on the trip side with no match
C5_WitnessNoMatch ==
    /\ display_pc = "shown"
    /\ Truthy(selected_value)
    /\ TripColumn \in InT.columns
    /\ InT.rows # <<>>
    /\ OutT.rows = <<>>

\* C5 as stated: no error, and an output is empty whenever its input lacks the
\* tested column or has no matching record.
C5_AsStated ==
    display_pc = "shown" =>
        /\ ~filtered.raised
        /\ Truthy(selected_value) =>
             LET vcol == VehicleColumn(TRUE)
             IN  /\ NoMatch(InV, vcol, VehicleValues(vcol)) => OutV.rows = <<>>
                 /\ NoMatch(InT, TripColumn, {selected_value}) => OutT.rows = <<>>

\* C6: every run of the display block, with any filter type and value, leaves
\* the session's two frames as they were (the same objects with the same
\* columns and rows), and the frames get_filtered_data returns are other
\* objects.
C6_InputsUnchanged ==
    [][ /\ session' = session
        /\ heap'[session.vehicle_data] = heap[session.vehicle_data]
        /\ heap'[session.trip_data] = heap[session.trip_data]
        /\ filtered'.vehicle \notin {session.vehicle_data, session.trip_data}
        /\ filtered'.trip \notin {session.vehicle_data, session.trip_data} ]_vars

\* a filter that dropped records on both sides
C6_Witness ==
    /\ display_pc = "shown"
    /\ Truthy(selected_value)
    /\ Len(OutV.rows) < Len(InV.rows)
    /\ Len(OutT.rows) < Len(InT.rows)

\* out holds records of in only, unaltered, each at most once, in in's order
\* (the index label of a record of in is its position less one)
IsSubsequence(out, in) ==
    /\ out.columns = in.columns
    /\ \A k \in 1..Len(out.rows) :
          /\ out.rows[k].index + 1 \in 1..Len(in.rows)
          /\ out.rows[k] = in.rows[out.rows[k].index + 1]
    /\ \A j, k \in 1..Len(out.rows) : j < k => out.rows[j].index < out.rows[k].index

\* C10: whatever the filter type and value, each output is a subsequence of
\* its input.
C10_OutputsAreSubsequences ==
    display_pc = "shown" =>
        /\ IsSubsequence(OutV, InV)
        /\ IsSubsequence(OutT, InT)

\* a filter that kept two of three vehicle records
C10_Witness ==
    /\ display_pc = "shown"
    /\ Truthy(selected_value)
    /\ Len(InV.rows) = 3
    /\ Len(OutV.rows) = 2
    /\ OutV.rows[1].index = 0
    /\ OutV.rows[2].index = 2

----
(***************************************************************************)
(* The "Load GTFS RT" button handler.  What the collaborators answer is    *)
(* the handler's input: the blob download_network_file returns for the     *)
(* source, and for each feed the outcome of requests.get, raise_for_status *)
(* and ParseFromString.                                                    *)
(***************************************************************************)
NetworkNames == {"a", "b"}

\* the sources st.selectbox offers: none (selected_name is then never bound),
\* or the names of the blobs, the name of a blob called ".json" among them
NetworkLists == {{}, NetworkNames \cup {""}}

\* download_network_file's answers, json.loads applied: no blob (None, which
\* json.loads rejects), a text that is no JSON, the object {}, a JSON value
\* that is true and no object (it has no get), or a definition, each url of
\* which is set or not
Downloads ==
    { [kind |-> k, vehicle_positions_url |-> FALSE, trip_updates_url |-> FALSE] :
        k \in {"none", "invalid", "empty", "not_object"} }
    \cup { [kind |-> "definition", vehicle_positions_url |-> v, trip_updates_url |-> t] :
             v, t \in BOOLEAN }

Fail == <<"fail">>

Feed(entities) == <<"feed", entities>>

LoadVehicleEntity ==
    EntityId \o << <<"vehicle", <<"m", << <<"vehicle", <<"m", << <<"id", <<"s", "101">> >> >> >> >> >> >> >> >>

LoadTripEntity ==
    EntityId \o << <<"trip_update", <<"m", << <<"trip", <<"m", << <<"trip_id", <<"s", "T1">> >> >> >> >> >> >> >> >>

\* what a feed url answers: a failure of the fetch or the decode, or a feed
Responses(entity) == {Fail, Feed(<<>>), Feed(<<entity>>), Feed(<<entity, entity>>)}

\* a url that is not set is not fetched
Unset == <<"unset">>

\* open_gtfs_realtime_from_url without its try/except
open_gtfs_realtime_from_url_raises(response) ==
    IF response = Fail
    THEN [feed |-> None, error |-> FALSE, raised |-> TRUE]
    ELSE [feed |-> response, error |-> FALSE, raised |-> FALSE]

\* the feed, or None with an st.error when the fetch or the decode raised
open_gtfs_realtime_from_url(response) ==
    IF response = Fail
    THEN [feed |-> None, error |-> TRUE, raised |-> FALSE]
    ELSE [feed |-> response, error |-> FALSE, raised |-> FALSE]

\* lines 291-300 for one feed: the frame to store, whether the url was tried,
\* whether an error was shown, whether an exception left the block
load_feed(url_set, response) ==
    IF ~url_set
    THEN [frame |-> EmptyFrame, attempted |-> FALSE, error |-> FALSE, raised |-> FALSE]
    ELSE LET o == open_gtfs_realtime_from_url(response)
         IN  [frame |-> IF ~o.raised /\ o.feed # None
                        THEN protobuf_to_dataframe(o.feed[2]) ELSE EmptyFrame,
              attempted |-> TRUE, error |-> o.error, raised |-> o.raised]

NoLoad ==
    [n |-> 0, name |-> "", download |-> "none", vehicle |-> Unset, trip |-> Unset,
     attempted |-> {}, errors |-> {}, outcome |-> "none"]

MaxLoads == 2

\* lines 303-307 without line 305
store_snapshot_without_selected_name(s, vehicle_data, trip_data, selected_name, fetch_time) ==
    [present |-> s.present \cup {"vehicle_data", "trip_data", "fetch_time", "title"},
     vehicle_data |-> vehicle_data, trip_data |-> trip_data,
     selected_name |-> s.selected_name, fetch_time |-> fetch_time,
     title |-> <<selected_name, fetch_time>>]

\* lines 303-307: the snapshot and the title, one key after the other, nothing
\* in between that could raise
store_snapshot(s, vehicle_data, trip_data, selected_name, fetch_time) ==
    [present |-> s.present \cup
                 {"vehicle_data", "trip_data", "selected_name", "fetch_time", "title"},
     vehicle_data |-> vehicle_data, trip_data |-> trip_data,
     selected_name |-> selected_name, fetch_time |-> fetch_time,
     title |-> <<selected_name, fetch_time>>]

\* the button is pressed: a run of the script that reaches line 281
LoadGtfsRt ==
    /\ load.n < MaxLoads
    /\ display_pc = "hidden"
    /\ \E network_list \in NetworkLists :
         IF network_list = {}
         THEN \* the button's label names selected_name, which no line bound:
              \* a NameError ends the run
              /\ load' = [NoLoad EXCEPT !.n = load.n + 1, !.download = "not_read",
                                        !.outcome = "name_error"]
              /\ display_pc' = "aborted"
              /\ UNCHANGED <<heap, session>>
         ELSE \E selected_name \in network_list :
           IF selected_name = ""
           THEN \* if selected_name: nothing is done
                /\ load' = [NoLoad EXCEPT !.n = load.n + 1, !.download = "not_read",
                                          !.outcome = "no_source"]
                /\ UNCHANGED <<heap, session, display_pc>>
           ELSE \E download \in Downloads :
             \E vehicle_response \in
                   IF download.vehicle_positions_url
                   THEN Responses(LoadVehicleEntity) ELSE {Unset},
                trip_response \in
                   IF download.trip_updates_url
                   THEN Responses(LoadTripEntity) ELSE {Unset} :
               LET v == load_feed(download.vehicle_positions_url, vehicle_response)
                   \* an exception skips the rest of the try block
                   t == IF v.raised
                        THEN [frame |-> EmptyFrame, attempted |-> FALSE,
                              error |-> FALSE, raised |-> FALSE]
                        ELSE load_feed(download.trip_updates_url, trip_response)
                   fetch_time == load.n + 1
                   outcome == CASE download.kind \in {"none", "invalid"} -> "exception"
                                [] download.kind = "empty" -> "no_data"
                                [] download.kind = "not_object" -> "exception"
                                [] v.raised \/ t.raised -> "exception"
                                [] OTHER -> "loaded"
               IN  /\ load' = [n |-> load.n + 1, name |-> selected_name,
                               download |-> download.kind,
                               vehicle |-> vehicle_response, trip |-> trip_response,
                               attempted |-> IF download.kind = "definition"
                                             THEN {f \in {"vehicle"} : v.attempted}
                                                  \cup {f \in {"trip"} : t.attempted}
                                             ELSE {},
                               errors |-> IF download.kind = "definition"
                                          THEN {f \in {"vehicle"} : v.error}
                                               \cup {f \in {"trip"} : t.error}
                                          ELSE {},
                               outcome |-> outcome]
                   /\ IF outcome = "loaded"
                      THEN /\ heap' = <<v.frame, t.frame>>
                           /\ session' = store_snapshot(session, 1, 2, selected_name,
                                                        fetch_time)
                      ELSE UNCHANGED <<heap, session>>
                   /\ UNCHANGED display_pc
    /\ UNCHANGED <<sortVars, decodeVars, filter_option, selected_value, filtered>>

----
\* the frame the last load had to store for a feed
Expected(response) ==
    IF response \in {Unset, Fail} THEN EmptyFrame ELSE protobuf_to_dataframe(response[2])

\* C7: when the source's definition is read, a load handles its two feeds one
\* by one: each feed whose url is set is attempted whatever became of the
\* other, a feed that fails is reported and leaves an empty record set, and the
\* records of a feed that did not fail are stored; no feed's failure makes the
\* load fail as a whole.
C7_FeedsLoadIndependently ==
    (load.n > 0 /\ load.download = "definition") =>
        /\ load.outcome = "loaded"
        /\ load.attempted = {f \in {"vehicle"} : load.vehicle # Unset}
                            \cup {f \in {"trip"} : load.trip # Unset}
        /\ load.errors = {f \in {"vehicle"} : load.vehicle = Fail}
                         \cup {f \in {"trip"} : load.trip = Fail}
        /\ {"vehicle_data", "trip_data"} \subseteq session.present
        /\ heap[session.vehicle_data] = Expected(load.vehicle)
        /\ heap[session.trip_data] = Expected(load.trip)

\* a load whose Vehicle Positions feed failed and whose Trip Updates records
\* were stored
C7_Witness ==
    /\ load.n > 0
    /\ load.outcome = "loaded"
    /\ load.vehicle = Fail
    /\ load.trip # Fail
    /\ heap[session.trip_data].rows # <<>>
    /\ heap[session.vehicle_data].rows = <<>>

----
\* the session holds the whole snapshot or nothing of it
AllOrNothing ==
    \/ ReadKeys \subseteq session.present
    \/ ReadKeys \cap session.present = {}

\* a step that is a load an exception ended: a NameError at the button, or an
\* exception the handler's except caught
LoadRaised ==
    /\ load'.n = load.n + 1
    /\ load'.outcome \in {"exception", "name_error"}

\* C11: after any sequence of loads (stored, failing per feed, or ended by an
\* exception) the session holds vehicle_data, trip_data, selected_name and
\* fetch_time all together or none of them; the display block never reads a
\* key the session does not hold; and a load that an exception ended leaves
\* the session and its frames as they were.
C11_SnapshotAllOrNothing ==
    /\ [](AllOrNothing /\ display_pc # "key_error")
    /\ [][LoadRaised => (session' = session /\ heap' = heap)]_vars

\* a load stored a snapshot, the next load raised, and the display block then
\* read the snapshot of the first and showed it
C11_Witness ==
    /\ load.n = 2
    /\ load.outcome = "exception"
    /\ ReadKeys \subseteq session.present
    /\ session.fetch_time = 1
    /\ display_pc = "shown"

----
(***************************************************************************)
(* The specifications.  Each starts the part it is about from its inputs   *)
(* and holds the other parts idle.                                         *)
(***************************************************************************)
\* smart_sort on the distinct identifiers of a column
InitSort ==
    /\ sort_pc = "input"
    /\ data \in DistinctSeqs(IdUniverse, MaxIds)
    /\ sorted_ids = <<>>
    /\ decode_pc = "idle"
    /\ feed = <<>>
    /\ frame = EmptyFrame
    /\ json_list = <<>>
    /\ heap = <<>>
    /\ session = [present |-> {"title"}, vehicle_data |-> 0, trip_data |-> 0,
                  selected_name |-> "", fetch_time |-> 0, title |-> <<"GTFS Inspector">>]
    /\ display_pc = "hidden"
    /\ filter_option = "Vehicle ID"
    /\ selected_value = None
    /\ filtered = [vehicle |-> 0, trip |-> 0, raised |-> FALSE]
    /\ load = NoLoad

NextSort == SortIdentifiers

SpecSort == InitSort /\ [][NextSort]_vars

\* protobuf_to_dataframe on a parsed feed, then the JSON export
InitDecode ==
    /\ sort_pc = "idle"
    /\ data = <<>>
    /\ sorted_ids = <<>>
    /\ decode_pc = "feed"
    /\ feed \in SeqsUpTo(DecodeEntities, MaxFeedLen)
    /\ frame = EmptyFrame
    /\ json_list = <<>>
    /\ heap = <<>>
    /\ session = [present |-> {"title"}, vehicle_data |-> 0, trip_data |-> 0,
                  selected_name |-> "", fetch_time |-> 0, title |-> <<"GTFS Inspector">>]
    /\ display_pc = "hidden"
    /\ filter_option = "Vehicle ID"
    /\ selected_value = None
    /\ filtered = [vehicle |-> 0, trip |-> 0, raised |-> FALSE]
    /\ load = NoLoad

NextDecode == Decode \/ ExportJson

SpecDecode == InitDecode /\ [][NextDecode]_vars
\* the display block on a loaded session
Init ==
    /\ sort_pc = "idle"
    /\ data = <<>>
    /\ sorted_ids = <<>>
    /\ decode_pc = "idle"
    /\ feed = <<>>
    /\ frame = EmptyFrame
    /\ json_list = <<>>
    /\ \E vf \in SeqsUpTo(FilterVehicleEntities, MaxEntities) :
         \E tf \in SeqsUpTo(FilterTripEntities, MaxEntities - Len(vf)) :
            heap = <<protobuf_to_dataframe(vf), protobuf_to_dataframe(tf)>>
    /\ session = LoadedSession
    /\ display_pc = "hidden"
    /\ filter_option = "Vehicle ID"
    /\ selected_value = None
    /\ filtered = [vehicle |-> 0, trip |-> 0, raised |-> FALSE]
    /\ load = NoLoad

Next == DisplayBlock \/ Rerun

Spec == Init /\ [][Next]_vars
\* the load handler and the display block on a new session
InitLoad ==
    /\ sort_pc = "idle"
    /\ data = <<>>
    /\ sorted_ids = <<>>
    /\ decode_pc = "idle"
    /\ feed = <<>>
    /\ frame = EmptyFrame
    /\ json_list = <<>>
    /\ heap = <<>>
    /\ session = [present |-> {"title"}, vehicle_data |-> 0, trip_data |-> 0,
                  selected_name |-> "", fetch_time |-> 0, title |-> <<"GTFS Inspector">>]
    /\ display_pc = "hidden"
    /\ filter_option = "Vehicle ID"
    /\ selected_value = None
    /\ filtered = [vehicle |-> 0, trip |-> 0, raised |-> FALSE]
    /\ load = NoLoad

NextLoad == LoadGtfsRt \/ DisplayBlock \/ Rerun

SpecLoad == InitLoad /\ [][NextLoad]_vars
====
